---- MODULE Spec2Model ----
(***************************************************************************)
(* State machine of the image classifier single-page application          *)
(* (src/src/App.tsx, the clothing classifier, "variant A", and            *)
(* src/unnamed/part_001, the brain tumor classifier, "variant B").         *)
(*                                                                         *)
(* The React component keeps four pieces of state (model, imageURL,        *)
(* prediction, history).  Three kinds of asynchronous work run beside it:  *)
(* the model load started by the mount effect, one FileReader per file     *)
(* selection, and one image-load/inference callback per accepted Predict   *)
(* click.  Each callback closes over the values of the render in which     *)
(* its handler was created.                                                *)
(***************************************************************************)
EXTENDS Integers, Sequences, FiniteSets, Bags, TLC

VARIABLES
    variant,        \* "A" (App.tsx) or "B" (part_001): which program runs
    model,          \* useState model: NULL or the loaded handle
    imageURL,       \* useState imageURL: NULL or a data URL
    prediction,     \* useState prediction: "" initially
    history,        \* useState history: sequence of HistoryItem
    loadState,      \* position of the mount effect / loadModel()
    loadsStarted,   \* number of times loadModel() was called
    readers,        \* FileReaders in flight: data URL -> number of readers
    inflight,       \* bag of handlePredict callbacks in flight (closure, pc)
    alertOpen,      \* TRUE while handlePredict is blocked inside alert()
    log,            \* entries in the order their predictions completed
    arr,            \* argument of the latest argMax call
    ret,            \* <<index>> returned by the latest argMax call, <<>> before
    lastOp,         \* name of the latest handler or callback that ran
    rejected,       \* TRUE once a Predict attempt was answered by the notice
    lastSelected,   \* file of the latest selection, NULL before the first
    pixels,         \* RGBA samples of the image handed to preprocessImage
    tensor          \* tensor returned by preprocessImage, <<>> before

vars == <<variant, model, imageURL, prediction, history, loadState,
          loadsStarted, readers, inflight, alertOpen, log,
          arr, ret, lastOp, rejected, lastSelected, pixels, tensor>>

appVars == <<variant, model, imageURL, prediction, history, loadState,
             loadsStarted, readers, inflight, alertOpen, log, rejected,
             lastSelected>>

----------------------------------------------------------------------------
(* Bounds of the exploration *)

MaxPredicts == 2
MaxUploads == 2
MaxLen == 4

----------------------------------------------------------------------------
(* Values *)

NULL == "null"
UNDEFINED == "undefined"
EMPTY == ""
LoadedModel == "loadedModel"
Images == {"data:img1", "data:img2"}
NoFile == "nofile"

\* Scores are tenths (7 stands for 0.7).  NaN and -Infinity are the two
\* non-finite numbers Math.max can return.
NaN == -1
NegInf == -2
ScoreVals == {0, 1, 2, NaN}

classLabelsA ==
    <<"T-shirt/top", "Trouser", "Pullover", "Dress", "Coat", "Sandal",
      "Shirt", "Sneaker", "Bag", "Ankle boot">>

classLabelsB == <<"Glioma", "Healthy", "Meningioma", "Pituitary">>

classLabels(v) == IF v = "A" THEN classLabelsA ELSE classLabelsB

LabelSet(v) == {classLabels(v)[i] : i \in 1..Len(classLabels(v))}

----------------------------------------------------------------------------
(* argMax: arr.indexOf(Math.max(...arr)), with JavaScript's 0-based index *)

RECURSIVE MaxFrom(_, _, _)
MaxFrom(a, i, acc) ==
    IF i > Len(a) THEN acc
    ELSE IF acc = NaN \/ a[i] = NaN THEN MaxFrom(a, i + 1, NaN)
    ELSE IF acc = NegInf \/ a[i] > acc THEN MaxFrom(a, i + 1, a[i])
    ELSE MaxFrom(a, i + 1, acc)

MathMax(a) == MaxFrom(a, 1, NegInf)

RECURSIVE IndexFrom(_, _, _)
IndexFrom(a, x, i) ==
    IF i > Len(a) THEN -1
    ELSE IF x # NaN /\ a[i] = x THEN i - 1
    ELSE IndexFrom(a, x, i + 1)

RECURSIVE LastIndexFrom(_, _, _)
LastIndexFrom(a, x, i) ==
    IF i < 1 THEN -1
    ELSE IF x # NaN /\ a[i] = x THEN i - 1
    ELSE LastIndexFrom(a, x, i - 1)

LastIndexOf(a, x) == LastIndexFrom(a, x, Len(a))

IndexOf(a, x) == IndexFrom(a, x, 1)

argMax(a) == IndexOf(a, MathMax(a))

\* classLabels[k] for a JavaScript index k: undefined outside 0..length-1
LabelAt(v, k) ==
    IF k >= 0 /\ k < Len(classLabels(v)) THEN classLabels(v)[k + 1]
    ELSE UNDEFINED

----------------------------------------------------------------------------
(* Output vectors the model may return (prediction.data()) *)

Peak(m, i, hi, lo) == [k \in 1..m |-> IF k = i THEN hi ELSE lo]

Tie(m, i, j, hi, lo) == [k \in 1..m |-> IF k = i \/ k = j THEN hi ELSE lo]

\* the score pair of the variant's end-to-end scenario
Hi(v) == IF v = "A" THEN 1 ELSE 7
Lo(v) == IF v = "A" THEN 0 ELSE 1

OutputVectors(v) ==
    LET n == Len(classLabels(v)) IN
      {<<>>}
      \cup {Peak(n, i, Hi(v), Lo(v)) : i \in {1, n - 2}}
      \cup {Tie(n, 1, 2, Hi(v), Lo(v))}
      \cup {Peak(n, 1, NaN, Lo(v))}
      \cup {Peak(n + 1, n + 1, Hi(v), Lo(v))}

----------------------------------------------------------------------------
(* Initial state: the component has rendered once, nothing has run yet *)

Init ==
    /\ variant \in {"A", "B"}
    /\ model = NULL
    /\ imageURL = NULL
    /\ prediction = EMPTY
    /\ history = <<>>
    /\ loadState = "idle"
    /\ loadsStarted = 0
    /\ readers = [f \in Images |-> 0]
    /\ inflight = EmptyBag
    /\ alertOpen = FALSE
    /\ log = <<>>
    /\ arr = <<>>
    /\ ret = <<>>
    /\ lastOp = "init"
    /\ rejected = FALSE
    /\ lastSelected = NULL
    /\ pixels = <<>>
    /\ tensor = <<>>

----------------------------------------------------------------------------
(* Model load: useEffect(() => { loadModel() }, []) *)

UseEffectRetries ==
    /\ ~alertOpen
    /\ loadState \in {"idle", "failed"}
    /\ loadState' = "loading"
    /\ loadsStarted' = loadsStarted + 1
    /\ lastOp' = "UseEffect"
    /\ UNCHANGED <<rejected, lastSelected>>
    /\ UNCHANGED <<variant, model, imageURL, prediction, history, readers,
                   inflight, alertOpen, log, arr, ret>>
    /\ UNCHANGED <<pixels, tensor>>

UseEffect ==
    /\ ~alertOpen
    /\ loadState = "idle"
    /\ loadState' = "loading"
    /\ loadsStarted' = loadsStarted + 1
    /\ lastOp' = "UseEffect"
    /\ UNCHANGED <<rejected, lastSelected>>
    /\ UNCHANGED <<variant, model, imageURL, prediction, history, readers,
                   inflight, alertOpen, log, arr, ret>>
    /\ UNCHANGED <<pixels, tensor>>

\* await tf.loadLayersModel(...) resolved: setModel(loadedModel)
LoadModelDone ==
    /\ ~alertOpen
    /\ loadState = "loading"
    /\ model' = LoadedModel
    /\ loadState' = "done"
    /\ lastOp' = "LoadModelDone"
    /\ UNCHANGED <<rejected, lastSelected>>
    /\ UNCHANGED <<variant, imageURL, prediction, history, loadsStarted,
                   readers, inflight, alertOpen, log, arr, ret>>
    /\ UNCHANGED <<pixels, tensor>>

LoadModelRetry ==
    /\ ~alertOpen
    /\ loadState = "loading"
    /\ loadState' = "idle"
    /\ lastOp' = "LoadModelFailed"
    /\ UNCHANGED <<rejected, lastSelected>>
    /\ UNCHANGED <<variant, model, imageURL, prediction, history,
                   loadsStarted, readers, inflight, alertOpen, log, arr, ret>>
    /\ UNCHANGED <<pixels, tensor>>

\* await tf.loadLayersModel(...) rejected: catch logs the error
LoadModelFailed ==
    /\ ~alertOpen
    /\ loadState = "loading"
    /\ loadState' = "failed"
    /\ lastOp' = "LoadModelFailed"
    /\ UNCHANGED <<rejected, lastSelected>>
    /\ UNCHANGED <<variant, model, imageURL, prediction, history,
                   loadsStarted, readers, inflight, alertOpen, log, arr, ret>>
    /\ UNCHANGED <<pixels, tensor>>

----------------------------------------------------------------------------
(* Image selection: handleImageUpload and reader.onload *)

Reading == readers["data:img1"] + readers["data:img2"]

HandleImageUploadSupersedes(f) ==
    /\ ~alertOpen
    /\ IF f # NoFile
         THEN /\ Reading < MaxUploads
              /\ readers' = [g \in Images |-> IF g = f THEN 1 ELSE 0]
              /\ lastSelected' = f
         ELSE UNCHANGED <<readers, lastSelected>>
    /\ lastOp' = "HandleImageUpload"
    /\ UNCHANGED rejected
    /\ UNCHANGED <<variant, model, imageURL, prediction, history, loadState,
                   loadsStarted, inflight, alertOpen, log, arr, ret>>
    /\ UNCHANGED <<pixels, tensor>>

\* f is e.target.files?.[0]; with a file a FileReader starts reading it
HandleImageUpload(f) ==
    /\ ~alertOpen
    /\ IF f # NoFile
         THEN /\ Reading < MaxUploads
              /\ readers' = [readers EXCEPT ![f] = @ + 1]
              /\ lastSelected' = f
         ELSE UNCHANGED <<readers, lastSelected>>
    /\ lastOp' = "HandleImageUpload"
    /\ UNCHANGED rejected
    /\ UNCHANGED <<variant, model, imageURL, prediction, history, loadState,
                   loadsStarted, inflight, alertOpen, log, arr, ret>>
    /\ UNCHANGED <<pixels, tensor>>

ReaderOnloadClears(f) ==
    /\ ~alertOpen
    /\ readers[f] > 0
    /\ readers' = [readers EXCEPT ![f] = @ - 1]
    /\ imageURL' = f
    /\ prediction' = EMPTY
    /\ lastOp' = "ReaderOnload"
    /\ UNCHANGED <<rejected, lastSelected>>
    /\ UNCHANGED <<variant, model, history, loadState, loadsStarted,
                   inflight, alertOpen, log, arr, ret>>
    /\ UNCHANGED <<pixels, tensor>>

ReaderOnloadLatestOnly(f) ==
    /\ ~alertOpen
    /\ readers[f] > 0
    /\ readers' = [readers EXCEPT ![f] = @ - 1]
    /\ imageURL' = IF f = lastSelected THEN f ELSE imageURL
    /\ lastOp' = "ReaderOnload"
    /\ UNCHANGED <<rejected, lastSelected>>
    /\ UNCHANGED <<variant, model, prediction, history, loadState,
                   loadsStarted, inflight, alertOpen, log, arr, ret>>
    /\ UNCHANGED <<pixels, tensor>>

\* reader.onload: setImageURL(reader.result)
ReaderOnload(f) ==
    /\ ~alertOpen
    /\ readers[f] > 0
    /\ readers' = [readers EXCEPT ![f] = @ - 1]
    /\ imageURL' = f
    /\ lastOp' = "ReaderOnload"
    /\ UNCHANGED <<rejected, lastSelected>>
    /\ UNCHANGED <<variant, model, prediction, history, loadState,
                   loadsStarted, inflight, alertOpen, log, arr, ret>>
    /\ UNCHANGED <<pixels, tensor>>

----------------------------------------------------------------------------
(* Prediction: handlePredict, img.onload and the awaits inside it *)

One(r) == SetToBag({r})

RejectsWithoutModelOnly(m, u) == m = NULL

\* if (!model || !imageURL)
Rejects(m, u) == m = NULL \/ u = NULL

HandlePredictSticky ==
    /\ ~alertOpen
    /\ IF Rejects(model, imageURL) \/ rejected
         THEN /\ alertOpen' = TRUE
              /\ rejected' = TRUE
              /\ lastOp' = "HandlePredictAlert"
              /\ UNCHANGED inflight
         ELSE /\ Len(log) + BagCardinality(inflight) < MaxPredicts
              /\ inflight' = inflight (+)
                    One([model |-> model, imageURL |-> imageURL,
                         history |-> history, src |-> imageURL,
                         pc |-> "onload"])
              /\ lastOp' = "HandlePredict"
              /\ UNCHANGED <<alertOpen, rejected>>
    /\ UNCHANGED <<variant, model, imageURL, prediction, history, loadState,
                   loadsStarted, readers, log, arr, ret, lastSelected>>
    /\ UNCHANGED <<pixels, tensor>>

\* The callback created by an accepted click closes over model, imageURL
\* and history of the current render; src is img.src, the image that
\* img.onload hands to preprocessImage.
HandlePredict ==
    /\ ~alertOpen
    /\ IF Rejects(model, imageURL)
         THEN /\ alertOpen' = TRUE
              /\ rejected' = TRUE
              /\ lastOp' = "HandlePredictAlert"
              /\ UNCHANGED inflight
         ELSE /\ Len(log) + BagCardinality(inflight) < MaxPredicts
              /\ inflight' = inflight (+)
                    One([model |-> model, imageURL |-> imageURL,
                         history |-> history, src |-> imageURL,
                         pc |-> "onload"])
              /\ lastOp' = "HandlePredict"
              /\ UNCHANGED <<alertOpen, rejected>>
    /\ UNCHANGED <<variant, model, imageURL, prediction, history, loadState,
                   loadsStarted, readers, log, arr, ret, lastSelected>>
    /\ UNCHANGED <<pixels, tensor>>

\* the user closes the notice: alert() returns and handlePredict returns
DismissAlert ==
    /\ alertOpen
    /\ alertOpen' = FALSE
    /\ lastOp' = "DismissAlert"
    /\ UNCHANGED <<rejected, lastSelected>>
    /\ UNCHANGED <<variant, model, imageURL, prediction, history, loadState,
                   loadsStarted, readers, inflight, log, arr, ret>>
    /\ UNCHANGED <<pixels, tensor>>

\* img.onload fires: preprocessImage, model.predict, prediction.data() asked
ImgOnload(r) ==
    /\ ~alertOpen
    /\ BagIn(r, inflight)
    /\ r.pc = "onload"
    /\ inflight' = (inflight (-) One(r)) (+) One([r EXCEPT !.pc = "data"])
    /\ lastOp' = "ImgOnload"
    /\ UNCHANGED <<rejected, lastSelected>>
    /\ UNCHANGED <<variant, model, imageURL, prediction, history, loadState,
                   loadsStarted, readers, alertOpen, log, arr, ret>>
    /\ UNCHANGED <<pixels, tensor>>

\* model.predict throws (tensor shape does not match the model input): the
\* async callback rejects and nothing after line 69 runs
PredictThrows(r) ==
    /\ ~alertOpen
    /\ BagIn(r, inflight)
    /\ r.pc = "onload"
    /\ inflight' = inflight (-) One(r)
    /\ lastOp' = "PredictThrows"
    /\ UNCHANGED <<rejected, lastSelected>>
    /\ UNCHANGED <<variant, model, imageURL, prediction, history, loadState,
                   loadsStarted, readers, alertOpen, log, arr, ret>>
    /\ UNCHANGED <<pixels, tensor>>

NewHistoryPrepends(closureHistory, current, entry) ==
    <<entry>> \o closureHistory

\* setHistory([...history, { imageURL, predictedClass }]) with the history
\* of the closure; current is the history state at the time of the call
NewHistory(closureHistory, current, entry) == Append(closureHistory, entry)

EntryImageCurrent(r, current) == current

\* { imageURL, predictedClass }: imageURL is the variable of the closure;
\* current is the imageURL state at the time of the call
EntryImage(r, current) == r.imageURL

\* prediction.data() resolved with the scores out
DataResolved(r, out) ==
    /\ ~alertOpen
    /\ BagIn(r, inflight)
    /\ r.pc = "data"
    /\ LET predictedClass == LabelAt(variant, argMax(out))
           entry == [imageURL |-> EntryImage(r, imageURL),
                     predictedClass |-> predictedClass]
       IN /\ prediction' = predictedClass
          /\ history' = NewHistory(r.history, history, entry)
          /\ log' = Append(log, entry)
    /\ arr' = out
    /\ ret' = <<argMax(out)>>
    /\ inflight' = inflight (-) One(r)
    /\ lastOp' = "DataResolved"
    /\ UNCHANGED <<rejected, lastSelected>>
    /\ UNCHANGED <<variant, model, imageURL, loadState, loadsStarted,
                   readers, alertOpen>>
    /\ UNCHANGED <<pixels, tensor>>

----------------------------------------------------------------------------

Next ==
    \/ UseEffect
    \/ LoadModelDone
    \/ LoadModelFailed
    \/ \E f \in Images \cup {NoFile} : HandleImageUpload(f)
    \/ \E f \in Images : ReaderOnload(f)
    \/ HandlePredict
    \/ DismissAlert
    \/ \E r \in BagToSet(inflight) : ImgOnload(r)
    \/ \E r \in BagToSet(inflight) : PredictThrows(r)
    \/ \E r \in BagToSet(inflight) : \E out \in OutputVectors(variant) :
          DataResolved(r, out)

Spec == Init /\ [][Next]_vars

\* The runs with a fair event loop draw the scores from the end-to-end
\* scenario of the variant and the empty vector.
FairOutputs(v) ==
    {<<>>, Peak(Len(classLabels(v)), IF v = "A" THEN 8 ELSE 1, Hi(v), Lo(v))}

NextFair ==
    \/ UseEffect
    \/ LoadModelDone
    \/ LoadModelFailed
    \/ \E f \in Images \cup {NoFile} : HandleImageUpload(f)
    \/ \E f \in Images : ReaderOnload(f)
    \/ HandlePredict
    \/ DismissAlert
    \/ \E r \in BagToSet(inflight) : ImgOnload(r)
    \/ \E r \in BagToSet(inflight) : PredictThrows(r)
    \/ \E r \in BagToSet(inflight) : \E out \in FairOutputs(variant) :
          DataResolved(r, out)

\* The event loop runs every pending callback: a loaded image fires
\* img.onload and a requested download of the scores resolves.
Fairness ==
    /\ WF_vars(\E r \in BagToSet(inflight) : ImgOnload(r))
    /\ WF_vars(\E r \in BagToSet(inflight) :
                 \E out \in FairOutputs(variant) : DataResolved(r, out))

SpecFair == Init /\ [][NextFair]_vars /\ Fairness

----------------------------------------------------------------------------
(* argMax on its own: every score vector of at most MaxLen entries *)

ScoreVectors == UNION {[1..n -> ScoreVals] : n \in 0..MaxLen}

InitArgMax ==
    /\ variant \in {"A", "B"}
    /\ model = NULL
    /\ imageURL = NULL
    /\ prediction = EMPTY
    /\ history = <<>>
    /\ loadState = "idle"
    /\ loadsStarted = 0
    /\ readers = [f \in Images |-> 0]
    /\ inflight = EmptyBag
    /\ alertOpen = FALSE
    /\ log = <<>>
    /\ arr \in ScoreVectors
    /\ ret = <<>>
    /\ lastOp = "init"
    /\ rejected = FALSE
    /\ lastSelected = NULL
    /\ pixels = <<>>
    /\ tensor = <<>>

CallArgMax ==
    /\ ret = <<>>
    /\ ret' = <<argMax(arr)>>
    /\ lastOp' = "argMax"
    /\ UNCHANGED <<appVars, arr>>
    /\ UNCHANGED <<pixels, tensor>>

NextArgMax == CallArgMax

SpecArgMax == InitArgMax /\ [][NextArgMax]_vars

----------------------------------------------------------------------------
(* preprocessImage on its own.  A tensor is its nested array of values;   *)
(* a float is kept as a whole number of millionths.                        *)

MaxDim == 2

Million == 1000000

\* samples of a decoded image: whole numbers 0..255 (Uint8ClampedArray)
Samples == {0, 1, 254, 255}

\* an h x w picture with opaque pixels whose colour samples alternate
\* between a and b
Picture(h, w, a, b) ==
    [y \in 1..h |-> [x \in 1..w |-> [c \in 1..4 |->
        IF c = 4 THEN 255 ELSE IF (x + y + c) % 2 = 0 THEN a ELSE b]]]

Pictures ==
    {Picture(h, w, a, b) : h \in 1..MaxDim, w \in 1..MaxDim,
                           a \in Samples, b \in Samples}

\* tf.browser.fromPixels(img, numChannels): the first numChannels samples
\* of every RGBA pixel, shape [h, w, numChannels]
FromPixels(p, numChannels) ==
    [y \in 1..Len(p) |-> [x \in 1..Len(p[y]) |->
        [c \in 1..numChannels |-> p[y][x][c]]]]

\* row or column of the source read for position k (0-based) of the output
Nearest(k, inSize, outSize) ==
    LET i == (k * inSize) \div outSize
    IN IF i > inSize - 1 THEN inSize - 1 ELSE i

\* .resizeNearestNeighbor([newH, newW])
ResizeNearestNeighbor(t, newH, newW) ==
    [y \in 1..newH |-> [x \in 1..newW |->
        t[Nearest(y - 1, Len(t), newH) + 1]
         [Nearest(x - 1, Len(t[1]), newW) + 1]]]

DivScalarBy127(v, d) == (v * Million) \div 127

\* one sample after .toFloat().div(tf.scalar(d))
DivScalar(v, d) == (v * Million) \div d

\* .toFloat().div(tf.scalar(255.0))
Normalize(t) ==
    [y \in 1..Len(t) |-> [x \in 1..Len(t[y]) |->
        [c \in 1..Len(t[y][x]) |-> DivScalar(t[y][x][c], 255)]]]

\* .expandDims(): a batch dimension of size 1 in front
ExpandDims(t) == <<t>>

\* number of colour channels and side of the square input, per variant
NumChannels(v) == IF v = "A" THEN 1 ELSE 3
InputSide(v) == IF v = "A" THEN 28 ELSE 150

preprocessImage(v, p) ==
    ExpandDims(Normalize(
        ResizeNearestNeighbor(FromPixels(p, NumChannels(v)),
                              InputSide(v), InputSide(v))))

\* shape of a rank-4 tensor
Shape(t) == <<Len(t), Len(t[1]), Len(t[1][1]), Len(t[1][1][1])>>

InitPreprocess ==
    /\ variant \in {"A", "B"}
    /\ model = NULL
    /\ imageURL = NULL
    /\ prediction = EMPTY
    /\ history = <<>>
    /\ loadState = "idle"
    /\ loadsStarted = 0
    /\ readers = [f \in Images |-> 0]
    /\ inflight = EmptyBag
    /\ alertOpen = FALSE
    /\ log = <<>>
    /\ arr = <<>>
    /\ ret = <<>>
    /\ lastOp = "init"
    /\ rejected = FALSE
    /\ lastSelected = NULL
    /\ pixels \in Pictures
    /\ tensor = <<>>

CallPreprocessImage ==
    /\ tensor = <<>>
    /\ tensor' = preprocessImage(variant, pixels)
    /\ lastOp' = "preprocessImage"
    /\ UNCHANGED <<appVars, arr, ret, pixels>>

NextPreprocess == CallPreprocessImage

SpecPreprocess == InitPreprocess /\ [][NextPreprocess]_vars

----------------------------------------------------------------------------
(* Helpers of the properties *)

IsPrefix(s, t) == Len(s) <= Len(t) /\ \A i \in 1..Len(s) : s[i] = t[i]

NoNaN(a) == \A i \in 1..Len(a) : a[i] # NaN

\* the (1-based) positions of a that hold its greatest score
MaxPositions(a) == {i \in 1..Len(a) : \A j \in 1..Len(a) : a[j] <= a[i]}

Lowest(S) == CHOOSE i \in S : \A j \in S : i <= j

\* a step in which a prediction completes (prediction.data() resolved)
Completes == Len(log') = Len(log) + 1

\* a step of handleImageUpload that starts a read, or of reader.onload
Selects == readers' # readers

\* a step of handlePredict: the notice is shown or a callback is created
Attempts ==
    (~alertOpen /\ alertOpen')
      \/ BagCardinality(inflight') > BagCardinality(inflight)

----------------------------------------------------------------------------
(* Properties *)

\* C1: after N predictions have completed, the history has length N and
\* history[i] is the entry of the i-th prediction to complete, whatever the
\* interleaving of selections, Predict clicks and completions.
C1_HistoryIsCompletionLog == history = log

\* C2: a Predict attempt made while the model handle is null or no image is
\* selected shows the notice and changes nothing: history, displayed
\* prediction, current image and model handle stay as they are and no
\* inference is started.
C2_RejectedAttemptChangesNothing ==
    [][((model = NULL \/ imageURL = NULL) /\ Attempts)
         => /\ alertOpen'
            /\ UNCHANGED <<history, prediction, imageURL, model, inflight,
                           log>>]_vars

\* C2 witness: the model is loaded, no image is selected, and the attempt
\* has just been answered with the notice.
C2_Witness ==
    /\ lastOp = "HandlePredictAlert"
    /\ alertOpen
    /\ model = LoadedModel
    /\ imageURL = NULL

\* C3: in every step the history before the step is a prefix of the history
\* after it, which is equal or longer by exactly one entry.
C3_HistoryOnlyGrowsAtEnd ==
    [][IsPrefix(history, history') /\ Len(history') <= Len(history) + 1]_vars

\* C4: the predictedClass of every history entry is one of the class labels
\* of the running variant, whatever vector the model returned.
C4_LabelsAreClassLabels ==
    \A i \in 1..Len(history) : history[i].predictedClass \in LabelSet(variant)

\* C5: every completed predict call adds exactly one entry to the history,
\* however many selections and decodes happen between its click and its
\* completion, and a selection or decode step leaves the history alone.
C5_OneEntryPerCompletedPredict ==
    [][/\ Completes => Len(history') = Len(history) + 1
       /\ Selects => history' = history]_vars

\* C6: when the model returns a vector with one score per class label, the
\* completed prediction sets the displayed prediction to the label at the
\* index of the greatest score and grows the history by one entry that
\* carries that label.
C6_LabelOfMaximumAppended ==
    [][(Completes /\ Len(arr') = Len(classLabels(variant)) /\ NoNaN(arr'))
         => /\ \E i \in MaxPositions(arr') :
                  prediction' = classLabels(variant)[i]
            /\ Len(history') = Len(history) + 1
            /\ history'[Len(history')].predictedClass = prediction']_vars

\* C7: for a non-empty vector of numbers whose greatest score occurs at
\* several indices, argMax returns the lowest of those indices, so the
\* label chosen is the one at that index.
C7_ArgMaxTieLowestIndex ==
    (ret # <<>> /\ arr # <<>> /\ NoNaN(arr)
       /\ Cardinality(MaxPositions(arr)) >= 2)
      => /\ ret[1] = Lowest(MaxPositions(arr)) - 1
         /\ LabelAt(variant, ret[1])
               = classLabels(variant)[Lowest(MaxPositions(arr))]

\* C7 witness: argMax has returned for the scores <<1, 2, 2>>, whose greatest
\* score sits at the second and third position.
C7_Witness == ret # <<>> /\ arr = <<1, 2, 2>>

\* C8: the model load is started once, the handle is null until that load
\* has completed, and an installed handle is never replaced or cleared; the
\* load never starts again.
C8_ModelAxisOneWay ==
    [][/\ loadsStarted' <= 1
       /\ (model # NULL) <=> (loadState = "done")
       /\ model # NULL => model' = model
       /\ loadState \in {"done", "failed"} => loadState' = loadState]_vars

\* C8 witness: the handle is installed and a prediction has completed with
\* it since.
C8_Witness ==
    /\ model = LoadedModel
    /\ loadState = "done"
    /\ loadsStarted = 1
    /\ Len(log) >= 1

\* C9: once the model load has failed the handle stays null, the load is
\* not started again, every Predict attempt is rejected with the notice,
\* and the history stays empty and the displayed prediction blank.
C9_FailedLoadIsFinal ==
    [][loadState = "failed"
         => /\ model = NULL /\ model' = NULL
            /\ loadState' = "failed"
            /\ loadsStarted' = loadsStarted
            /\ history' = <<>> /\ prediction' = EMPTY
            /\ inflight' = EmptyBag
            /\ Attempts => alertOpen']_vars

\* C9 witness: the load failed, an image was selected and decoded, and the
\* Predict attempt that followed was answered with the notice.
C9_Witness ==
    /\ loadState = "failed"
    /\ imageURL # NULL
    /\ alertOpen
    /\ lastOp = "HandlePredictAlert"

\* C10: a selection step and the completion of a decode leave the history,
\* the displayed prediction and the model handle unchanged; the completed
\* decode makes its image the current one.
C10_SelectionFrame ==
    [][Selects
         => /\ UNCHANGED <<history, prediction, model>>
            /\ Reading' > Reading => imageURL' = imageURL
            /\ Reading' < Reading
                 => /\ imageURL' \in Images
                    /\ readers[imageURL'] = readers'[imageURL'] + 1]_vars

\* C10 witness: a decode has just replaced the image of the latest history
\* entry while the history and the displayed prediction are in place.
C10_Witness ==
    /\ lastOp = "ReaderOnload"
    /\ history # <<>>
    /\ prediction # EMPTY
    /\ imageURL # history[Len(history)].imageURL

\* the number of model loads in flight
Loading == IF loadState = "loading" THEN 1 ELSE 0

\* C11: in every state at most one model load and at most one image decode
\* are in flight.
C11_OneLoadOneDecode == Loading <= 1 /\ loadsStarted <= 1 /\ Reading <= 1

\* C11 amended: at most one model load is ever in flight, but decodes are
\* not superseded: a selection adds one decode to those in flight, and a
\* pending decode leaves only by completing, one at a time, which makes its
\* image the current one.
C11_DecodesRunAlongside ==
    [][/\ Loading' <= 1 /\ loadsStarted' <= 1
       /\ Reading' > Reading => Reading' = Reading + 1
       /\ \A g \in Images :
             readers'[g] < readers[g]
                => /\ Reading' = Reading - 1
                   /\ imageURL' = g]_vars

\* C11 witness: the second selection has just been made while the decode of
\* the first is pending; both decodes are in flight.
C11_Witness ==
    /\ lastOp = "HandleImageUpload"
    /\ readers["data:img1"] = 1
    /\ readers["data:img2"] = 1

\* C12: in every step either one entry is appended to the history and the
\* displayed prediction is set to its label, or neither the history nor the
\* displayed prediction changes; a failed inference is of the second kind.
C12_AllOrNothing ==
    [][\/ /\ Len(history') = Len(history) + 1
          /\ IsPrefix(history, history')
          /\ prediction' = history'[Len(history')].predictedClass
       \/ UNCHANGED <<prediction, history>>]_vars

\* the latest completed prediction is shown and is the last history entry
LatestShown ==
    /\ history # <<>>
    /\ history[Len(history)] = log[Len(log)]
    /\ prediction = log[Len(log)].predictedClass

C15_PreprocessShapeAndRange ==
    tensor # <<>>
      => /\ Shape(tensor) = IF variant = "A" THEN <<1, 28, 28, 1>>
                                            ELSE <<1, 150, 150, 3>>
         /\ \A y \in 1..Len(tensor[1]) : \A x \in 1..Len(tensor[1][y]) :
               \A c \in 1..Len(tensor[1][y][x]) :
                  /\ tensor[1][y][x][c] >= 0
                  /\ tensor[1][y][x][c] <= Million

\* C15 witness: preprocessImage has returned for a 2 x 2 picture that holds
\* both the darkest and the brightest sample.
C15_Witness ==
    /\ tensor # <<>>
    /\ Len(pixels) = 2 /\ Len(pixels[1]) = 2
    /\ pixels[1][1][1] = 255
    /\ pixels[1][2][1] = 0

\* C16: the current image changes only when a decode completes and is then
\* the image of that decode, whichever image was selected last; a decode of
\* an earlier selection that completes late makes the earlier image current.
C16_LateDecodeOverwrites ==
    [][/\ imageURL' # imageURL => Reading' < Reading
       /\ \A g \in Images : readers'[g] < readers[g] => imageURL' = g]_vars

\* C16 witness: every decode has completed, the last one just now, and the
\* current image is not the image selected last.
C16_Witness ==
    /\ lastOp = "ReaderOnload"
    /\ Reading = 0
    /\ lastSelected # NULL
    /\ imageURL # lastSelected

\* C17: an accepted click hands the current image to its callback both as
\* the source of the picture fed to the model and as the image of the
\* future entry, and the entry of a completed prediction carries the image
\* its scores were computed from; every history entry is such an entry.
C17_EntryImageIsImageFed ==
    [][/\ BagCardinality(inflight') > BagCardinality(inflight)
            => \E r \in BagToSet(inflight') :
                  /\ inflight' = inflight (+) One(r)
                  /\ r.src = imageURL
                  /\ r.imageURL = imageURL
       /\ Completes
            => \E r \in BagToSet(inflight) :
                  /\ r.pc = "data"
                  /\ inflight' = inflight (-) One(r)
                  /\ log'[Len(log')].imageURL = r.src
                  /\ history'[Len(history')] = log'[Len(log')]
       /\ \A i \in 1..Len(history) : \E j \in 1..Len(log) :
              history[i] = log[j]]_vars

\* C17 witness: a prediction has just completed and its entry carries an
\* image that is no longer the current one.
C17_Witness ==
    /\ lastOp = "DataResolved"
    /\ history # <<>>
    /\ history[Len(history)].imageURL # imageURL

\* C18: the history is empty exactly when no prediction has completed, the
\* displayed prediction is then the empty string, and otherwise it is the
\* predictedClass of the last history entry.
C18_PredictionIsLastEntry ==
    /\ (history = <<>>) <=> (log = <<>>)
    /\ history = <<>> => prediction = EMPTY
    /\ history # <<>> => prediction = history[Len(history)].predictedClass

\* C18 witness: two overlapping predictions with different labels have
\* completed and the history holds one entry.
C18_Witness ==
    /\ Len(log) = 2
    /\ Len(history) = 1
    /\ log[1].predictedClass # log[2].predictedClass
    /\ prediction = log[2].predictedClass

====
